---- MODULE Spec2Model ----
(***************************************************************************)
(* Shiro: the pipeline orchestrator (shiro.py main) and the three stages   *)
(* it drives (AudioExtractor, Transcriber, MeetingSummarizer), modelled as *)
(* a state machine over the files below output_base.parent.                *)
(*                                                                         *)
(* A file name is a sequence of tokens; the token "." is the only place a  *)
(* dot occurs, so pathlib's stem / with_suffix arithmetic is computed on   *)
(* the position of the last "." token exactly as pathlib computes it on    *)
(* the position of the last '.' character.                                 *)
(***************************************************************************)
EXTENDS Integers, Sequences, FiniteSets, TLC

VARIABLES
    video,            \* args.video_path (file name)
    output,           \* args.output (file name) or NoOutput
    fs,               \* files of output_base.parent: name -> content
    job,              \* number of the current invocation of main()
    pc,               \* position of main() in the current invocation
    args,             \* skip_extraction, skip_transcription, skip_summary, force
    env,              \* ffmpeg installed, ANTHROPIC_API_KEY set, video exists
    exitCode,         \* value returned by main()
    raised,           \* exception that reached main's except clauses
    intr,             \* a keyboard interrupt was delivered in this invocation
    intr_at,          \* where the last one arrived: before main's try block,
                      \* inside it ("try"), inside an except clause, or None
    stage,            \* what became of each stage in this invocation
    calls,            \* invocations of each external collaborator
    audio_path,       \* main's local audio_path
    transcript_data,  \* main's local transcript_data
    summary_text,     \* summarize_meeting's local summary_text (Call 1 output)
    warned,           \* _extract_structured_data printed its warning
    response,         \* what Call 2 came back with: its exception or its payload
    response_text,    \* _extract_structured_data's local response_text
    structured_data,  \* summarize_meeting's local structured_data
    summary_result,   \* main's local summary_result
    fs0,              \* fs when the invocation started
    prev,             \* the previous invocation ran with no skip flag and returned 0
    outcome,          \* how each collaborator call of this invocation came back
    sent,             \* the input handed to Call 1 and to Call 2
    made_dir,         \* main has created output_base.parent in this invocation
    segments,         \* the segments handed to _save_srt
    srt_file,         \* the lines _save_srt wrote
    result,           \* the segments model.transcribe returned
    transcript_result,\* the record transcribe built from them
    size,             \* st_size of a file the completion report lists
    size_str          \* the size the report printed for it

vars == <<video, output, fs, job, pc, args, env, exitCode, raised, intr, intr_at, stage,
          calls, audio_path, transcript_data, summary_text, warned,
          response, response_text, structured_data, summary_result, fs0, prev,
          outcome, sent, made_dir,
          segments, srt_file, result, transcript_result, size, size_str>>

(***************************************************************************)
(* Bounds                                                                  *)
(***************************************************************************)
MaxJobs == 2

NoOutput == <<>>
NoCode == 0 - 1
None == "none"

VideoNames == { <<"demo", ".", "mkv">>, <<"demo", ".", "v2", ".", "mkv">> }
OutputArgs == { NoOutput, <<"demo">> }

(***************************************************************************)
(* pathlib                                                                 *)
(***************************************************************************)
Dot == "."

\* index of the last "." token of name, 0 when there is none (str.rfind)
RECURSIVE rfindDot(_, _)
rfindDot(name, i) ==
    IF i = 0 THEN 0
    ELSE IF name[i] = Dot THEN i ELSE rfindDot(name, i - 1)

\* PurePath.suffix: the last dot must be neither first nor last in the name
suffix(name) ==
    LET i == rfindDot(name, Len(name))
    IN  IF 1 < i /\ i < Len(name) THEN SubSeq(name, i, Len(name)) ELSE <<>>

\* PurePath.stem
stem(name) ==
    LET i == rfindDot(name, Len(name))
    IN  IF 1 < i /\ i < Len(name) THEN SubSeq(name, 1, i - 1) ELSE name

\* PurePath.with_suffix
with_suffix(name, suf) ==
    IF suffix(name) = <<>> THEN name \o suf
    ELSE SubSeq(name, 1, Len(name) - Len(suffix(name))) \o suf

(***************************************************************************)
(* Artifact paths                                                          *)
(***************************************************************************)
\* main: output_base
output_base(v, o) == IF o # NoOutput THEN o ELSE stem(v)

\* main: audio_path = str(output_base) + "_audio.wav"
AudioPath(base) == base \o <<"_audio", Dot, "wav">>

\* main: transcript_path = str(output_base) + "_transcript.json"
TranscriptPath(base) == base \o <<"_transcript", Dot, "json">>

\* main, line 243: the summary path the report prints,
\* str(output_base) + "_summary.md"
SummaryMdPath(base) == base \o <<"_summary", Dot, "md">>

\* AudioExtractor.extract_audio: output_dir / f"{video_path.stem}_audio.wav"
ExtractOutputPath(v) == stem(v) \o <<"_audio", Dot, "wav">>

\* main: transcript_output = str(output_base) + "_transcript"
TranscriptOutput(base) == base \o <<"_transcript">>

\* Transcriber.save_transcript: output_path.with_suffix(".json" / ".txt" / ".srt")
SavedTranscriptPath(outp, ext) == with_suffix(outp, <<Dot, ext>>)

\* a summary path that falls on the transcript's
SavedSummaryPathOnTranscript(outp, ext) == outp \o <<"_transcript", Dot, ext>>

\* MeetingSummarizer.save_summary: output_path.with_name(f"{stem}_summary.<ext>")
SavedSummaryPath(outp, ext) == stem(outp) \o <<"_summary", Dot, ext>>

\* main, lines 200-202, and save_transcript, lines 124 and 130: the text and
\* the subtitle file written for output_base
TranscriptTxtPath(base) == SavedTranscriptPath(TranscriptOutput(base), "txt")
TranscriptSrtPath(base) == SavedTranscriptPath(TranscriptOutput(base), "srt")

\* main, line 219, and save_summary, line 190: the JSON summary written for
\* output_base
SummaryJsonPath(base) == SavedSummaryPath(base, "json")

Base == output_base(video, output)

Exists(f, p) == p \in DOMAIN f

(***************************************************************************)
(* Exceptions and the except clauses they meet                             *)
(***************************************************************************)
\* KeyboardInterrupt derives from BaseException, everything else modelled
\* here from Exception
IsException(e) == e # None /\ e # "KeyboardInterrupt"

\* extract_audio: except subprocess.CalledProcessError -> raise RuntimeError
ExtractAudioHandler(e) == IF e = "CalledProcessError" THEN "RuntimeError" ELSE e

\* a bare except in summarize_meeting: the interrupt is wrapped as well
SummarizeHandlerBare(e) == IF e # None THEN "RuntimeError" ELSE e

\* summarize_meeting: except Exception -> raise RuntimeError
SummarizeHandler(e) == IF IsException(e) THEN "RuntimeError" ELSE e

\* _extract_structured_data without its except clause
ExtractStructuredCatchesNothing(e) == FALSE

\* _extract_structured_data: except Exception -> warning, return {}
ExtractStructuredCatches(e) == IsException(e)

\* main: except KeyboardInterrupt -> return 130; except Exception -> return 1
MainHandler(e) == IF e = "KeyboardInterrupt" THEN 130 ELSE 1

(***************************************************************************)
(* The structured-data response and its parsing                            *)
(***************************************************************************)
Fence == "fence"
NL == "nl"

\* what json.loads makes of each payload token; an action item is the set of
\* its keys
JsonPayloads == {"{}", "{full}", "{notask}", "[]"}
JsonValue(tok) ==
    CASE tok = "{}"       -> [kind |-> "object", action_items |-> <<>>]
      [] tok = "{full}"   -> [kind |-> "object", action_items |-> <<{"task", "owner"}>>]
      [] tok = "{notask}" -> [kind |-> "object", action_items |-> <<{"owner"}>>]
      [] tok = "[]"       -> [kind |-> "array", action_items |-> <<>>]
EmptyObject == JsonValue("{}")

\* a local that is not bound
NoValue == [kind |-> "unbound", action_items |-> <<>>]
NoText == <<>>

Payloads == JsonPayloads \cup {"prose"}
Shapes == {"bare", "fenced", "fenced json", "fenced other"}
ResponseText(shape, p) ==
    CASE shape = "bare"         -> <<p>>
      [] shape = "fenced"       -> <<Fence, NL, p, NL, Fence>>
      [] shape = "fenced json"  -> <<Fence, "json", NL, p, NL, Fence>>
      [] shape = "fenced other" -> <<Fence, "py", NL, p, NL, Fence>>

\* str.find(tok, from): first index >= from holding tok, 0 when there is none
RECURSIVE find(_, _, _)
find(t, tok, from) ==
    IF from > Len(t) THEN 0
    ELSE IF t[from] = tok THEN from ELSE find(t, tok, from + 1)

\* first index of a fence followed by the tag json, 0 when there is none
RECURSIVE findJsonFence(_, _)
findJsonFence(t, from) ==
    IF from >= Len(t) THEN 0
    ELSE IF t[from] = Fence /\ t[from + 1] = "json" THEN from
    ELSE findJsonFence(t, from + 1)

\* str.strip()
RECURSIVE lstrip(_)
lstrip(t) == IF t # <<>> /\ Head(t) = NL THEN lstrip(Tail(t)) ELSE t
RECURSIVE rstrip(_)
rstrip(t) ==
    IF t # <<>> /\ t[Len(t)] = NL THEN rstrip(SubSeq(t, 1, Len(t) - 1)) ELSE t
strip(t) == rstrip(lstrip(t))

\* a token without its last character: a newline is one character and
\* goes whole, any other token is left cut short
cut(tok) ==
    CASE tok = NL   -> << >>
      [] tok = "{}" -> <<"{">>
      [] tok = "[]" -> <<"[">>
      [] OTHER      -> <<tok \o " cut">>

\* s[:-1]: the text without its last character
without_last_char(t) ==
    IF t = << >> THEN << >>
    ELSE SubSeq(t, 1, Len(t) - 1) \o cut(t[Len(t)])

\* response_text[json_start:json_end]; a json_end of -1 (find found no
\* closing fence) leaves out the last character of the text
slice(t, start, end) ==
    IF end = 0 THEN without_last_char(SubSeq(t, start, Len(t)))
    ELSE SubSeq(t, start, end - 1)

\* _extract_structured_data: the json_str handed to json.loads
json_str(t) ==
    IF findJsonFence(t, 1) # 0
    THEN LET s == findJsonFence(t, 1) + 2
         IN  strip(slice(t, s, find(t, Fence, s)))
    ELSE IF find(t, Fence, 1) # 0
    THEN LET s == find(t, Fence, 1) + 1
         IN  strip(slice(t, s, find(t, Fence, s)))
    ELSE strip(t)

\* json.loads raises unless the string is exactly one JSON document
json_loads_ok(s) == Len(s) = 1 /\ s[1] \in JsonPayloads

\* _extract_structured_data: the value returned for an API outcome; e is the
\* exception of messages.create (None when it returned), t the response text
extract_structured_data(e, t) ==
    IF e # None
    THEN IF ExtractStructuredCatches(e)
         THEN [raise |-> None, value |-> EmptyObject, warned |-> TRUE]
         ELSE [raise |-> e, value |-> EmptyObject, warned |-> FALSE]
    ELSE IF json_loads_ok(json_str(t))
         THEN [raise |-> None, value |-> JsonValue(json_str(t)[1]), warned |-> FALSE]
         ELSE IF ExtractStructuredCatches("JSONDecodeError")
              THEN [raise |-> None, value |-> EmptyObject, warned |-> TRUE]
              ELSE [raise |-> "JSONDecodeError", value |-> EmptyObject, warned |-> FALSE]

(***************************************************************************)
(* State                                                                   *)
(***************************************************************************)
Stages == {"extraction", "transcription", "summarization"}
Collaborators == {"ffmpeg", "load_model", "recognition", "call1", "call2"}

\* the content of a file: the invocation that wrote it (0: it was there
\* before the first invocation) and whether it was written to the end
Content(g, w) == [gen |-> g, whole |-> w]
Unbound == Content(NoCode, FALSE)
NoResult == [summary |-> None, structured_data |-> EmptyObject]
Narratives == {"narrative A"}

\* the files a run of each stage leaves for video v and output_base: the
\* audio at the path extract_audio builds from the video's stem, the three
\* files of save_transcript, the two files of save_summary
ArtifactSetOf(v, base, st) ==
    CASE st = "extraction"    -> {ExtractOutputPath(v)}
      [] st = "transcription" ->
            {SavedTranscriptPath(TranscriptOutput(base), "json"),
             TranscriptTxtPath(base), TranscriptSrtPath(base)}
      [] st = "summarization" ->
            {SummaryJsonPath(base), SavedSummaryPath(base, "md")}

\* the values output_base takes
Bases == {output_base(v, o) : v \in VideoNames, o \in OutputArgs}

\* ArtifactSetOf, computed once for every video and output_base
ArtifactSetTable ==
    [v \in VideoNames |->
        [b \in Bases |-> [st \in Stages |-> ArtifactSetOf(v, b, st)]]]
ArtifactSet(v, base, st) == ArtifactSetTable[v][base][st]

\* a write that leaves the written file alone in the directory
PutAlone(f, p, c) == [q \in {p} |-> c]

\* open(path, "w") ... write: the file holds c afterwards
Put(f, p, c) == [q \in DOMAIN f \cup {p} |-> IF q = p THEN c ELSE f[q]]

Flags == [skip_extraction : BOOLEAN, skip_transcription : BOOLEAN,
          skip_summary : BOOLEAN, force : BOOLEAN]
NoFlags == [skip_extraction |-> FALSE, skip_transcription |-> FALSE,
            skip_summary |-> FALSE, force |-> FALSE]
Envs == [ffmpeg : BOOLEAN, key : BOOLEAN, video_exists : BOOLEAN]

NoCalls == [c \in Collaborators |-> 0]
NoOutcome == [c \in Collaborators |-> None]
NothingSent == [call1 |-> None, call2 |-> None]
NoTranscript == [duration |-> 0, full_transcript |-> <<>>, segments |-> <<>>]
NoSize == <<>>
AllPending == [st \in Stages |-> "pending"]

Init ==
    /\ video \in VideoNames
    /\ output \in OutputArgs
    /\ output = NoOutput \/ output # stem(video)
    /\ \E S \in SUBSET Stages, whole \in BOOLEAN :
          /\ whole \/ TranscriptPath(output_base(video, output))
                         \in ArtifactSet(video, output_base(video, output), "transcription")
          /\ whole \/ "transcription" \in S
          /\ fs = [q \in UNION {ArtifactSet(video, output_base(video, output), st) : st \in S}
                    |-> Content(0, whole \/ q # TranscriptPath(output_base(video, output)))]
    /\ job = 0
    /\ pc = "idle"
    /\ args = NoFlags
    /\ env \in Envs
    /\ exitCode = NoCode
    /\ raised = None
    /\ intr = FALSE
    /\ intr_at = None
    /\ stage = AllPending
    /\ calls = NoCalls
    /\ audio_path = <<>>
    /\ transcript_data = Unbound
    /\ summary_text = None
    /\ warned = FALSE
    /\ response = None
    /\ response_text = NoText
    /\ structured_data = NoValue
    /\ summary_result = NoResult
    /\ fs0 = fs
    /\ prev = FALSE
    /\ outcome = NoOutcome
    /\ sent = NothingSent
    /\ made_dir = FALSE
    /\ segments = <<>>
    /\ srt_file = <<>>
    /\ result = <<>>
    /\ transcript_result = NoTranscript
    /\ size = 0
    /\ size_str = NoSize

(***************************************************************************)
(* main                                                                    *)
(***************************************************************************)
\* a requirements check that looks for ffmpeg only
check_requirements_ffmpeg_only(e) ==
    IF e.ffmpeg THEN {} ELSE {"ffmpeg is not installed"}

\* check_requirements: the list of issues
check_requirements(e) ==
    (IF e.ffmpeg THEN {} ELSE {"ffmpeg is not installed"})
    \cup (IF e.key THEN {} ELSE {"ANTHROPIC_API_KEY not set"})

\* main, lines 122-128: the requirements gate
MissingRequirements(e, a) ==
    check_requirements(e) # {} /\ ~(a.skip_extraction /\ a.skip_summary)

\* main, lines 131-134: the video test
VideoNotFound(e, a) == ~e.video_exists /\ ~a.skip_extraction

\* a reuse test that never reuses
ReuseExistingNever(force, exists) == FALSE

\* a reuse test that forgets --force
ReuseExistingIgnoringForce(force, exists) == exists

\* main: the two skip-by-reuse tests, "not args.force and Path(p).exists()"
ReuseExisting(force, exists) == ~force /\ exists

\* main returns code
Return(code) ==
    /\ pc' = "done"
    /\ exitCode' = code
    /\ raised' = None

\* an exception that is swallowed, main going on to step 3
RaiseSwallowed(e) ==
    /\ pc' = "step3"
    /\ exitCode' = exitCode
    /\ raised' = e

\* exception e leaves the try block of main and reaches its except clauses
Raise(e) ==
    /\ pc' = "except"
    /\ exitCode' = exitCode
    /\ raised' = e

Goto(l) ==
    /\ pc' = l
    /\ UNCHANGED <<exitCode, raised>>

Called(c) == [calls EXCEPT ![c] = @ + 1]
Mark(st, what) == [stage EXCEPT ![st] = what]

\* collaborator c came back raising e (None: it returned)
Returned(c, e) ==
    [outcome EXCEPT ![c] = IF e = None THEN "ok"
                           ELSE IF e = "KeyboardInterrupt" THEN "interrupt"
                           ELSE "error"]

\* the full_transcript text of a transcript record
full_transcript(transcript) == "full_transcript of run " \o ToString(transcript.gen)

\* main, line 214: Call 1 is given transcript_data["full_transcript"]
Call1Input(transcript) == full_transcript(transcript)

\* an extraction prompt built from the transcript
Call2InputTranscript(transcript, summary) == transcript

\* summarize_meeting, line 86, and _extract_structured_data, lines 119-122:
\* the extraction prompt is built from the summary, not from the transcript
Call2Input(transcript, summary) == summary

\* main, lines 114-150: parse the arguments, check the requirements and the
\* video, create the output directory
StartJob(a) ==
    /\ pc = "idle"
    /\ job < MaxJobs
    /\ job' = job + 1
    /\ args' = a
    /\ fs0' = fs
    /\ intr' = FALSE
    /\ intr_at' = None
    /\ stage' = AllPending
    /\ calls' = NoCalls
    /\ audio_path' = <<>>
    /\ transcript_data' = Unbound
    /\ summary_text' = None
    /\ warned' = FALSE
    /\ response' = None
    /\ response_text' = NoText
    /\ structured_data' = NoValue
    /\ summary_result' = NoResult
    /\ IF MissingRequirements(env, a)
       THEN Return(1)
       ELSE IF VideoNotFound(env, a)
       THEN Return(1)
       ELSE /\ pc' = "step1"
            /\ exitCode' = NoCode
            /\ raised' = None
    /\ outcome' = NoOutcome
    /\ sent' = NothingSent
    /\ made_dir' = (pc' = "step1")
    /\ UNCHANGED <<video, output, fs, env, prev,
                   result, transcript_result, size, size_str,
                   segments, srt_file>>

\* main, lines 114-150, and check_ffmpeg_installed, line 72: a
\* KeyboardInterrupt before the try block is caught by nothing and leaves
\* main, which returns no code; after_mkdir tells whether the output
\* directory had been created
InterruptBeforeTry(a, after_mkdir) ==
    /\ pc = "idle"
    /\ job < MaxJobs
    /\ after_mkdir => (~MissingRequirements(env, a) /\ ~VideoNotFound(env, a))
    /\ job' = job + 1
    /\ args' = a
    /\ fs0' = fs
    /\ intr' = TRUE
    /\ intr_at' = "before"
    /\ stage' = AllPending
    /\ calls' = NoCalls
    /\ audio_path' = <<>>
    /\ transcript_data' = Unbound
    /\ summary_text' = None
    /\ warned' = FALSE
    /\ response' = None
    /\ response_text' = NoText
    /\ structured_data' = NoValue
    /\ summary_result' = NoResult
    /\ pc' = "done"
    /\ exitCode' = NoCode
    /\ raised' = "KeyboardInterrupt"
    /\ outcome' = NoOutcome
    /\ sent' = NothingSent
    /\ made_dir' = after_mkdir
    /\ UNCHANGED <<video, output, fs, env, prev,
                   result, transcript_result, size, size_str,
                   segments, srt_file>>

\* main, lines 153-171: step 1 up to the call of ffmpeg
Step1 ==
    /\ pc = "step1"
    /\ audio_path' = AudioPath(Base)
    /\ IF args.skip_extraction
       THEN IF ~Exists(fs, AudioPath(Base))
            THEN Return(1) /\ stage' = Mark("extraction", "failed")
                 /\ calls' = calls
            ELSE Goto("step2") /\ stage' = Mark("extraction", "skipped")
                 /\ calls' = calls
       ELSE IF ReuseExisting(args.force, Exists(fs, AudioPath(Base)))
       THEN Goto("step2") /\ stage' = Mark("extraction", "reused")
            /\ calls' = calls
       ELSE IF ~env.video_exists
       THEN Raise("FileNotFoundError") /\ stage' = Mark("extraction", "failed")
            /\ calls' = calls
       ELSE Goto("ffmpeg") /\ stage' = Mark("extraction", "running")
            /\ calls' = Called("ffmpeg")
    /\ UNCHANGED <<video, output, fs, job, args, env, intr, intr_at, transcript_data,
                   summary_text, warned, response, response_text, structured_data, summary_result, fs0, prev,
                   result, transcript_result, size, size_str,
                   segments, srt_file, made_dir, outcome, sent>>

\* extract_audio, lines 56-62: subprocess.run returns or raises e; a run that
\* did not finish may have overwritten the destination (-y) or not.  A
\* CalledProcessError enters the handler of line 65
FfmpegReturn(e, clobber) ==
    /\ pc = "ffmpeg"
    /\ e = None => clobber
    /\ fs' = IF clobber
             THEN Put(fs, ExtractOutputPath(video), Content(job, e = None))
             ELSE fs
    /\ IF e = None
       THEN Goto("extract_audio_return") /\ stage' = stage
       ELSE IF ExtractAudioHandler(e) # e
       THEN Goto("extract_audio_handler") /\ stage' = stage
       ELSE Raise(e) /\ stage' = Mark("extraction", "failed")
    /\ intr' = (e = "KeyboardInterrupt")
    /\ intr_at' = IF e = "KeyboardInterrupt" THEN "try" ELSE intr_at
    /\ outcome' = Returned("ffmpeg", e)
    /\ UNCHANGED <<video, output, job, args, env, calls, audio_path,
                   transcript_data, summary_text, warned, response,
                   response_text, structured_data, summary_result, fs0, prev,
                   result, transcript_result, size, size_str,
                   segments, srt_file, made_dir, sent>>

\* extract_audio, lines 63-64, and main, lines 170-171: the path of the
\* file written is returned and bound to audio_path
ExtractAudioReturn ==
    /\ pc = "extract_audio_return"
    /\ audio_path' = ExtractOutputPath(video)
    /\ stage' = Mark("extraction", "ran")
    /\ Goto("step2")
    /\ UNCHANGED <<video, output, fs, job, args, env, intr, intr_at, calls,
                   transcript_data, summary_text, warned, response,
                   response_text, structured_data, summary_result, fs0, prev,
                   result, transcript_result, size, size_str,
                   segments, srt_file, made_dir, outcome, sent>>

\* extract_audio, lines 65-66: the handler raises RuntimeError
ExtractAudioRaise ==
    /\ pc = "extract_audio_handler"
    /\ stage' = Mark("extraction", "failed")
    /\ Raise(ExtractAudioHandler("CalledProcessError"))
    /\ UNCHANGED <<video, output, fs, job, args, env, intr, intr_at, calls,
                   audio_path, transcript_data, summary_text, warned, response,
                   response_text, structured_data, summary_result, fs0, prev,
                   result, transcript_result, size, size_str,
                   segments, srt_file, made_dir, outcome, sent>>

\* main, lines 182-183 and 190-191: json.load reads a file written to its end
json_load_ok(c) == c.whole

\* main, lines 173-195: step 2 up to whisper.load_model; json.load raises
\* JSONDecodeError on a transcript file that was cut short
Step2 ==
    /\ pc = "step2"
    /\ IF args.skip_transcription
       THEN IF ~Exists(fs, TranscriptPath(Base))
            THEN /\ Return(1)
                 /\ stage' = Mark("transcription", "failed")
                 /\ UNCHANGED <<calls, transcript_data>>
            ELSE IF ~json_load_ok(fs[TranscriptPath(Base)])
            THEN /\ Raise("JSONDecodeError")
                 /\ stage' = Mark("transcription", "failed")
                 /\ UNCHANGED <<calls, transcript_data>>
            ELSE /\ Goto("step3")
                 /\ stage' = Mark("transcription", "skipped")
                 /\ transcript_data' = fs[TranscriptPath(Base)]
                 /\ calls' = calls
       ELSE IF ReuseExisting(args.force, Exists(fs, TranscriptPath(Base)))
       THEN IF ~json_load_ok(fs[TranscriptPath(Base)])
            THEN /\ Raise("JSONDecodeError")
                 /\ stage' = Mark("transcription", "failed")
                 /\ UNCHANGED <<calls, transcript_data>>
            ELSE /\ Goto("step3")
                 /\ stage' = Mark("transcription", "reused")
                 /\ transcript_data' = fs[TranscriptPath(Base)]
                 /\ calls' = calls
       ELSE /\ Goto("load_model")
            /\ stage' = Mark("transcription", "running")
            /\ calls' = Called("load_model")
            /\ transcript_data' = transcript_data
    /\ UNCHANGED <<video, output, fs, job, args, env, intr, intr_at, audio_path,
                   summary_text, warned, response, response_text, structured_data, summary_result, fs0, prev,
                   result, transcript_result, size, size_str,
                   segments, srt_file, made_dir, outcome, sent>>

\* Transcriber.__init__, line 32: whisper.load_model returns or raises e
LoadModelReturn(e) ==
    /\ pc = "load_model"
    /\ IF e # None
       THEN /\ Raise(e)
            /\ stage' = Mark("transcription", "failed")
       ELSE /\ Goto("transcribe")
            /\ stage' = stage
    /\ intr' = (e = "KeyboardInterrupt")
    /\ intr_at' = IF e = "KeyboardInterrupt" THEN "try" ELSE intr_at
    /\ outcome' = Returned("load_model", e)
    /\ UNCHANGED <<video, output, fs, job, args, env, calls, audio_path,
                   transcript_data, summary_text, warned, response,
                   response_text, structured_data, summary_result, fs0, prev,
                   result, transcript_result, size, size_str,
                   segments, srt_file, made_dir, sent>>

\* Transcriber.__init__, line 34, main, lines 197-198, and transcribe, lines
\* 47-56: transcribe tests the audio file and calls the model
TranscribeCall ==
    /\ pc = "transcribe"
    /\ IF ~Exists(fs, audio_path)
       THEN /\ Raise("FileNotFoundError")
            /\ stage' = Mark("transcription", "failed")
            /\ calls' = calls
       ELSE /\ Goto("recognition")
            /\ stage' = stage
            /\ calls' = Called("recognition")
    /\ UNCHANGED <<video, output, fs, job, args, env, intr, intr_at,
                   audio_path, transcript_data, summary_text, warned, response,
                   response_text, structured_data, summary_result, fs0, prev,
                   result, transcript_result, size, size_str,
                   segments, srt_file, made_dir, outcome, sent>>

\* transcribe, lines 56-61: model.transcribe returns or raises e
RecognitionReturn(e) ==
    /\ pc = "recognition"
    /\ IF e # None
       THEN /\ Raise(e)
            /\ stage' = Mark("transcription", "failed")
       ELSE /\ Goto("transcribe_return")
            /\ stage' = stage
    /\ intr' = (e = "KeyboardInterrupt")
    /\ intr_at' = IF e = "KeyboardInterrupt" THEN "try" ELSE intr_at
    /\ outcome' = Returned("recognition", e)
    /\ UNCHANGED <<video, output, fs, job, args, env, calls, audio_path,
                   transcript_data, summary_text, warned, response,
                   response_text, structured_data, summary_result, fs0, prev,
                   result, transcript_result, size, size_str,
                   segments, srt_file, made_dir, sent>>

\* transcribe, lines 63-104, and main, lines 198-201: the record is built
\* from the segments and bound to transcript_data
TranscribeReturn ==
    /\ pc = "transcribe_return"
    /\ transcript_data' = Content(job, TRUE)
    /\ Goto("save_json")
    /\ UNCHANGED <<video, output, fs, job, args, env, intr, intr_at, stage,
                   calls, audio_path, summary_text, warned, response,
                   response_text, structured_data, summary_result, fs0, prev,
                   result, transcript_result, size, size_str,
                   segments, srt_file, made_dir, outcome, sent>>

\* save_transcript, lines 118-122
SaveTranscriptJson ==
    /\ pc = "save_json"
    /\ fs' = Put(fs, SavedTranscriptPath(TranscriptOutput(Base), "json"),
                 transcript_data)
    /\ Goto("save_txt")
    /\ UNCHANGED <<video, output, job, args, env, intr, intr_at, stage, calls,
                   audio_path, transcript_data, summary_text, warned, response, response_text, structured_data,
                   summary_result, fs0, prev,
                   result, transcript_result, size, size_str,
                   segments, srt_file, made_dir, outcome, sent>>

\* save_transcript, lines 124-128
SaveTranscriptTxt ==
    /\ pc = "save_txt"
    /\ fs' = Put(fs, SavedTranscriptPath(TranscriptOutput(Base), "txt"),
                 transcript_data)
    /\ Goto("save_srt")
    /\ UNCHANGED <<video, output, job, args, env, intr, intr_at, stage, calls,
                   audio_path, transcript_data, summary_text, warned, response, response_text, structured_data,
                   summary_result, fs0, prev,
                   result, transcript_result, size, size_str,
                   segments, srt_file, made_dir, outcome, sent>>

\* save_transcript, lines 130-133, and _save_srt
SaveTranscriptSrt ==
    /\ pc = "save_srt"
    /\ fs' = Put(fs, SavedTranscriptPath(TranscriptOutput(Base), "srt"),
                 transcript_data)
    /\ stage' = Mark("transcription", "ran")
    /\ Goto("step3")
    /\ UNCHANGED <<video, output, job, args, env, intr, intr_at, calls, audio_path,
                   transcript_data, summary_text, warned, response, response_text, structured_data, summary_result, fs0,
                   prev,
                   result, transcript_result, size, size_str,
                   segments, srt_file, made_dir, outcome, sent>>

\* main, lines 205-216, and MeetingSummarizer.__init__: step 3 up to Call 1
Step3 ==
    /\ pc = "step3"
    /\ IF args.skip_summary
       THEN /\ Goto("report")
            /\ stage' = Mark("summarization", "skipped")
            /\ calls' = calls
       ELSE IF ~env.key
       THEN /\ Raise("ValueError")
            /\ stage' = Mark("summarization", "failed")
            /\ calls' = calls
       ELSE /\ Goto("call1")
            /\ stage' = Mark("summarization", "running")
            /\ calls' = Called("call1")
    /\ sent' = IF pc' = "call1"
               THEN [sent EXCEPT !.call1 = Call1Input(transcript_data)]
               ELSE sent
    /\ UNCHANGED <<video, output, fs, job, args, env, intr, intr_at, audio_path,
                   transcript_data, summary_text, warned, response, response_text, structured_data, summary_result, fs0,
                   prev,
                   result, transcript_result, size, size_str,
                   segments, srt_file, made_dir, outcome>>

\* summarize_meeting, lines 70-83: Call 1 returns narrative n or raises e;
\* an exception the except clause of line 103 catches enters its handler
Call1Return(e, n) ==
    /\ pc = "call1"
    /\ IF e = None
       THEN /\ Goto("call1_return")
            /\ stage' = stage
            /\ summary_text' = n
       ELSE IF SummarizeHandler(e) # e
       THEN /\ Goto("summarize_handler")
            /\ stage' = stage
            /\ summary_text' = summary_text
       ELSE /\ Raise(e)
            /\ stage' = Mark("summarization", "failed")
            /\ summary_text' = summary_text
    /\ intr' = (e = "KeyboardInterrupt")
    /\ intr_at' = IF e = "KeyboardInterrupt" THEN "try" ELSE intr_at
    /\ outcome' = Returned("call1", e)
    /\ UNCHANGED <<video, output, fs, job, args, env, calls, audio_path,
                   transcript_data, warned, response, response_text,
                   structured_data, summary_result, fs0, prev,
                   result, transcript_result, size, size_str,
                   segments, srt_file, made_dir, sent>>

\* summarize_meeting, line 86, and _extract_structured_data, lines 117-143:
\* Call 2 is made with the narrative
Call2Send ==
    /\ pc = "call1_return"
    /\ Goto("call2")
    /\ calls' = Called("call2")
    /\ sent' = [sent EXCEPT !.call2 =
                   Call2Input(full_transcript(transcript_data), summary_text)]
    /\ UNCHANGED <<video, output, fs, job, args, env, intr, intr_at, stage,
                   audio_path, transcript_data, summary_text, warned, response,
                   response_text, structured_data, summary_result, fs0, prev,
                   result, transcript_result, size, size_str,
                   segments, srt_file, made_dir, outcome>>

\* summarize_meeting, lines 103-104: the handler raises RuntimeError
SummarizeRaise ==
    /\ pc = "summarize_handler"
    /\ stage' = Mark("summarization", "failed")
    /\ Raise("RuntimeError")
    /\ response_text' = NoText
    /\ structured_data' = NoValue
    /\ UNCHANGED <<video, output, fs, job, args, env, intr, intr_at, calls,
                   audio_path, transcript_data, summary_text, warned, response,
                   summary_result, fs0, prev,
                   result, transcript_result, size, size_str,
                   segments, srt_file, made_dir, outcome, sent>>

\* _extract_structured_data, lines 143-154: Call 2 raises e or returns
\* payload p in the given shape.  An exception the except clause of line 174
\* catches is handled there, another one goes on to summarize_meeting
Call2Return(e, shape, p) ==
    /\ pc = "call2"
    /\ response' = IF e # None THEN e ELSE p
    /\ response_text' = IF e # None THEN NoText ELSE ResponseText(shape, p)
    /\ IF e = None \/ ExtractStructuredCatches(e)
       THEN Goto("call2_return") /\ stage' = stage
       ELSE IF SummarizeHandler(e) # e
       THEN Goto("summarize_handler") /\ stage' = stage
       ELSE Raise(e) /\ stage' = Mark("summarization", "failed")
    /\ intr' = (e = "KeyboardInterrupt")
    /\ intr_at' = IF e = "KeyboardInterrupt" THEN "try" ELSE intr_at
    /\ outcome' = Returned("call2", e)
    /\ UNCHANGED <<video, output, fs, job, args, env, calls, audio_path,
                   transcript_data, summary_text, warned, structured_data,
                   summary_result, fs0, prev,
                   result, transcript_result, size, size_str,
                   segments, srt_file, made_dir, sent>>

\* _extract_structured_data, lines 156-176, and summarize_meeting, line 86:
\* the response is parsed, or the warning is printed, and the value is
\* bound to structured_data
ExtractStructured ==
    /\ pc = "call2_return"
    /\ LET r == extract_structured_data(
                   IF outcome["call2"] = "error" THEN response ELSE None,
                   response_text)
       IN  IF r.raise = None
           THEN /\ Goto("summarize_return")
                /\ stage' = stage
                /\ structured_data' = r.value
                /\ warned' = r.warned
           ELSE IF SummarizeHandler(r.raise) # r.raise
           THEN /\ Goto("summarize_handler")
                /\ stage' = stage
                /\ UNCHANGED <<structured_data, warned>>
           ELSE /\ Raise(r.raise)
                /\ stage' = Mark("summarization", "failed")
                /\ UNCHANGED <<structured_data, warned>>
    /\ response_text' = NoText
    /\ UNCHANGED <<video, output, fs, job, args, env, intr, intr_at, calls,
                   audio_path, transcript_data, summary_text, response,
                   summary_result, fs0, prev,
                   result, transcript_result, size, size_str,
                   segments, srt_file, made_dir, outcome, sent>>

\* summarize_meeting, lines 88-101, and main, line 213: the record is built
\* and bound to summary_result
SummarizeReturn ==
    /\ pc = "summarize_return"
    /\ summary_result' = [summary |-> summary_text,
                          structured_data |-> structured_data]
    /\ structured_data' = NoValue
    /\ Goto("save_summary_json")
    /\ UNCHANGED <<video, output, fs, job, args, env, intr, intr_at, stage,
                   calls, audio_path, transcript_data, summary_text, warned,
                   response, response_text, fs0, prev,
                   result, transcript_result, size, size_str,
                   segments, srt_file, made_dir, outcome, sent>>

\* save_summary, lines 186-193
SaveSummaryJson ==
    /\ pc = "save_summary_json"
    /\ fs' = Put(fs, SavedSummaryPath(Base, "json"), Content(job, TRUE))
    /\ Goto("save_summary_md")
    /\ UNCHANGED <<video, output, job, args, env, intr, intr_at, stage, calls,
                   audio_path, transcript_data, summary_text, warned, response, response_text, structured_data,
                   summary_result, fs0, prev,
                   result, transcript_result, size, size_str,
                   segments, srt_file, made_dir, outcome, sent>>

\* save_summary, lines 202-209: the exception the Markdown rendering raises
\* on structured data sd, None when it renders to the end
render_error(sd) ==
    IF sd.kind # "object" THEN "AttributeError"
    ELSE IF \E i \in 1..Len(sd.action_items) : "task" \notin sd.action_items[i]
    THEN "KeyError"
    ELSE None

\* save_summary, lines 195-244: the file is opened for writing, then rendered
SaveSummaryMd ==
    /\ pc = "save_summary_md"
    /\ LET e == render_error(summary_result.structured_data)
       IN  IF e # None
           THEN /\ fs' = Put(fs, SavedSummaryPath(Base, "md"), Content(job, FALSE))
                /\ stage' = Mark("summarization", "failed")
                /\ Raise(e)
           ELSE /\ fs' = Put(fs, SavedSummaryPath(Base, "md"), Content(job, TRUE))
                /\ stage' = Mark("summarization", "ran")
                /\ Goto("report")
    /\ UNCHANGED <<video, output, job, args, env, intr, intr_at, calls, audio_path,
                   transcript_data, summary_text, warned, response, response_text, structured_data, summary_result, fs0,
                   prev,
                   result, transcript_result, size, size_str,
                   segments, srt_file, made_dir, outcome, sent>>

\* main, lines 222-246: the completion report and return 0
Report ==
    /\ pc = "report"
    /\ Return(0)
    /\ UNCHANGED <<video, output, fs, job, args, env, intr, intr_at, stage, calls,
                   audio_path, transcript_data, summary_text, warned, response, response_text, structured_data,
                   summary_result, fs0, prev,
                   result, transcript_result, size, size_str,
                   segments, srt_file, made_dir, outcome, sent>>

\* shiro.py, lines 258-259: sys.exit(main()) ends the process; nothing of
\* it is left but the files, and the next invocation starts from them
Exit ==
    /\ pc = "done"
    /\ pc' = "idle"
    /\ prev' = (/\ exitCode = 0
                 /\ ~args.skip_extraction /\ ~args.skip_transcription
                 /\ ~args.skip_summary)
    /\ args' = NoFlags
    /\ exitCode' = NoCode
    /\ raised' = None
    /\ fs0' = fs
    /\ intr' = FALSE
    /\ intr_at' = None
    /\ stage' = AllPending
    /\ calls' = NoCalls
    /\ audio_path' = <<>>
    /\ transcript_data' = Unbound
    /\ summary_text' = None
    /\ warned' = FALSE
    /\ response' = None
    /\ response_text' = NoText
    /\ structured_data' = NoValue
    /\ summary_result' = NoResult
    /\ outcome' = NoOutcome
    /\ sent' = NothingSent
    /\ made_dir' = FALSE
    /\ UNCHANGED <<video, output, fs, job, env,
                   result, transcript_result, size, size_str,
                   segments, srt_file>>

\* main, lines 248-255: the except clause that matches the exception prints
\* its message and returns the code
Except ==
    /\ pc = "except"
    /\ pc' = "done"
    /\ exitCode' = MainHandler(raised)
    /\ UNCHANGED <<video, output, fs, job, args, env, raised, intr, intr_at,
                   stage, calls, audio_path, transcript_data, summary_text,
                   warned, response, response_text, structured_data, summary_result, fs0, prev,
                   result, transcript_result, size, size_str,
                   segments, srt_file, made_dir, outcome, sent>>

\* main, lines 249 and 252-254: the except clauses are outside the try
\* block, so a KeyboardInterrupt delivered while one of them prints is
\* caught by nothing and leaves main, which returns no code
InterruptExcept ==
    /\ pc = "except"
    /\ pc' = "done"
    /\ exitCode' = NoCode
    /\ raised' = "KeyboardInterrupt"
    /\ intr' = TRUE
    /\ intr_at' = "except"
    /\ UNCHANGED <<video, output, fs, job, args, env,
                   stage, calls, audio_path, transcript_data, summary_text,
                   warned, response, response_text, structured_data, summary_result, fs0, prev,
                   result, transcript_result, size, size_str,
                   segments, srt_file, made_dir, outcome, sent>>

\* the places inside main's try block where no collaborator is running: a
\* KeyboardInterrupt can be delivered at each of them
InMain == {"step1", "extract_audio_return", "extract_audio_handler",
           "step2", "transcribe", "transcribe_return",
           "save_json", "save_txt", "save_srt",
           "step3", "call1_return", "call2_return", "summarize_return",
           "summarize_handler", "save_summary_json", "save_summary_md",
           "report"}

\* the places inside the try block of summarize_meeting, lines 70-101
InSummarizeTry == {"call1_return", "call2_return", "summarize_return"}

StageAt(l) ==
    CASE l \in {"step1", "ffmpeg", "extract_audio_return",
                "extract_audio_handler"} -> "extraction"
      [] l \in {"step2", "load_model", "transcribe", "recognition",
                "transcribe_return", "save_json", "save_txt",
                "save_srt"} -> "transcription"
      [] l \in {"step3", "call1", "call1_return", "call2", "call2_return",
                "summarize_return", "summarize_handler", "save_summary_json",
                "save_summary_md"} -> "summarization"
      [] OTHER -> "none"

\* the places of main where a file is opened for writing
Writing == {"save_json", "save_txt", "save_srt", "save_summary_json",
            "save_summary_md"}

\* save_transcript and save_summary: the file opened for writing at l
WritingAt(l) ==
    CASE l = "save_json" -> SavedTranscriptPath(TranscriptOutput(Base), "json")
      [] l = "save_txt"  -> SavedTranscriptPath(TranscriptOutput(Base), "txt")
      [] l = "save_srt"  -> SavedTranscriptPath(TranscriptOutput(Base), "srt")
      [] l = "save_summary_json" -> SavedSummaryPath(Base, "json")
      [] l = "save_summary_md"   -> SavedSummaryPath(Base, "md")

\* main, lines 248-250: the interrupt is caught and main returns 130; with
\* part the interrupt arrives after open(path, "w") and before the write
\* has ended, and the file is left cut short.  Inside the try block of
\* summarize_meeting the interrupt passes its except clause on the way, and
\* the locals of the functions it leaves are gone
InterruptAt(part) ==
    /\ pc \in InMain
    /\ part => pc \in Writing
    /\ fs' = IF part THEN Put(fs, WritingAt(pc), Content(job, FALSE)) ELSE fs
    /\ intr' = TRUE
    /\ intr_at' = "try"
    /\ Raise(IF pc \in InSummarizeTry THEN SummarizeHandler("KeyboardInterrupt")
             ELSE "KeyboardInterrupt")
    /\ stage' = IF StageAt(pc) \in Stages THEN Mark(StageAt(pc), "failed")
                ELSE stage
    /\ response_text' = NoText
    /\ structured_data' = NoValue
    /\ UNCHANGED <<video, output, job, args, env, calls, audio_path,
                   transcript_data, summary_text, warned, response,
                   summary_result, fs0, prev,
                   result, transcript_result, size, size_str,
                   segments, srt_file, made_dir, outcome, sent>>

FfmpegErrors == {None, "CalledProcessError", "KeyboardInterrupt"}
WhisperErrors == {None, "RuntimeError", "KeyboardInterrupt"}
ApiErrors == {None, "APIError", "KeyboardInterrupt"}

\* an invocation with any flags
Start == \E a \in Flags : StartJob(a)

\* an invocation with any flags, interrupted before the try block
StartInterrupted ==
    \E a \in Flags, after_mkdir \in BOOLEAN : InterruptBeforeTry(a, after_mkdir)

\* a KeyboardInterrupt inside the try block, between two collaborator calls
Interrupt == \E part \in BOOLEAN : InterruptAt(part)

\* ffmpeg exits 0, exits nonzero or is interrupted
Ffmpeg == \E e \in FfmpegErrors, clobber \in BOOLEAN : FfmpegReturn(e, clobber)

\* whisper.load_model returns, fails or is interrupted
LoadModel == \E e \in WhisperErrors : LoadModelReturn(e)

\* model.transcribe returns, fails or is interrupted
Recognition == \E e \in WhisperErrors : RecognitionReturn(e)

\* the narrative call returns a narrative, fails or is interrupted
Call1 ==
    \E e \in ApiErrors, n \in Narratives :
        (e = None \/ n = "narrative A") /\ Call1Return(e, n)

\* the structured-data call returns a response, fails or is interrupted
Call2 ==
    \E e \in ApiErrors, shape \in Shapes, p \in Payloads :
        /\ e = None \/ (shape = "bare" /\ p = "prose")
        /\ Call2Return(e, shape, p)

Next ==
    \/ Start
    \/ StartInterrupted
    \/ Step1
    \/ Ffmpeg
    \/ ExtractAudioReturn
    \/ ExtractAudioRaise
    \/ Step2
    \/ LoadModel
    \/ TranscribeCall
    \/ Recognition
    \/ TranscribeReturn
    \/ SaveTranscriptJson
    \/ SaveTranscriptTxt
    \/ SaveTranscriptSrt
    \/ Step3
    \/ Call1
    \/ Call2Send
    \/ SummarizeRaise
    \/ Call2
    \/ ExtractStructured
    \/ SummarizeReturn
    \/ SaveSummaryJson
    \/ SaveSummaryMd
    \/ Report
    \/ Exit
    \/ Except
    \/ InterruptExcept
    \/ Interrupt

Spec == Init /\ [][Next]_vars

(***************************************************************************)
(* Vocabulary of the properties                                            *)
(***************************************************************************)
SkipFlag(st) ==
    CASE st = "extraction"    -> args.skip_extraction
      [] st = "transcription" -> args.skip_transcription
      [] st = "summarization" -> args.skip_summary

\* the collaborators of a stage
StageCollaborators(st) ==
    CASE st = "extraction"    -> {"ffmpeg"}
      [] st = "transcription" -> {"load_model", "recognition"}
      [] st = "summarization" -> {"call1", "call2"}

StageCalled(st) == \E c \in StageCollaborators(st) : calls[c] > 0

StageRank(st) ==
    CASE st = "extraction" -> 1 [] st = "transcription" -> 2
      [] st = "summarization" -> 3

\* the stage was gone through without an abort
Passed(st) == stage[st] \in {"skipped", "reused", "ran"}

\* the files a stage writes when it runs, as the code names them, for
\* video v and output_base
WrittenPathsOf(v, base, st) ==
    CASE st = "extraction"    -> {ExtractOutputPath(v)}
      [] st = "transcription" ->
            {SavedTranscriptPath(TranscriptOutput(base), x) : x \in {"json", "txt", "srt"}}
      [] st = "summarization" ->
            {SavedSummaryPath(base, x) : x \in {"json", "md"}}

\* WrittenPathsOf, computed once for every video and output_base
WrittenPathsTable ==
    [v \in VideoNames |->
        [b \in Bases |-> [st \in Stages |-> WrittenPathsOf(v, b, st)]]]

\* the files a stage of this invocation writes when it runs
WrittenPaths(st) == WrittenPathsTable[video][Base][st]

\* the artifact names of the specification: <output_base>_audio.wav,
\* <output_base>_transcript.json/.txt/.srt, <output_base>_summary.json/.md
NamedArtifactsOf(base, st) ==
    CASE st = "extraction"    -> {base \o <<"_audio", Dot, "wav">>}
      [] st = "transcription" ->
            {base \o <<"_transcript", Dot, x>> : x \in {"json", "txt", "srt"}}
      [] st = "summarization" ->
            {base \o <<"_summary", Dot, x>> : x \in {"json", "md"}}

\* NamedArtifactsOf, computed once for every output_base
NamedArtifactsTable ==
    [b \in Bases |-> [st \in Stages |-> NamedArtifactsOf(b, st)]]
NamedArtifacts(base, st) == NamedArtifactsTable[base][st]

\* file p is as it was when the invocation started
Untouched(p) ==
    /\ Exists(fs, p) <=> Exists(fs0, p)
    /\ Exists(fs, p) => fs[p] = fs0[p]

\* file p was written to the end by this invocation
Fresh(p) == Exists(fs, p) /\ fs[p].gen = job /\ fs[p].whole

\* the artifact whose existence stands for a completed stage was on disk
\* when the invocation started
ArtifactAtStart(st) ==
    CASE st = "extraction"    -> Exists(fs0, AudioPath(Base))
      [] st = "transcription" -> Exists(fs0, TranscriptPath(Base))
      [] st = "summarization" ->
            \A p \in NamedArtifacts(Base, st) : Exists(fs0, p)

AllArtifactsAtStart == \A st \in Stages : ArtifactAtStart(st)

NoSkipFlag == \A st \in Stages : ~SkipFlag(st)

(***************************************************************************)
(* C1  Resume idempotence: a run without --force and without skip flags    *)
(* that follows a full run which returned 0, or that finds the audio,      *)
(* transcript and summary artifacts on disk, invokes no collaborator and   *)
(* leaves every file as it was.                                            *)
(***************************************************************************)
C1_ResumeIdempotent ==
    (/\ job >= 1
     /\ NoSkipFlag
     /\ ~args.force
     /\ (prev \/ AllArtifactsAtStart))
    => (calls = NoCalls /\ fs = fs0)

(***************************************************************************)
(* C2  Per-stage decision rule, for each of the three stages: a skip flag  *)
(* keeps the collaborator from being invoked; else, without --force and    *)
(* with the artifact on disk, the collaborator is not invoked and the      *)
(* artifact is used (the transcript record is the content of               *)
(* <output_base>_transcript.json); else the stage runs.                    *)
(***************************************************************************)
C2_DecisionRule ==
    \A st \in Stages :
        stage[st] # "pending" =>
            IF SkipFlag(st) THEN ~StageCalled(st)
            ELSE IF ~args.force /\ ArtifactAtStart(st)
            THEN /\ ~StageCalled(st)
                 /\ (st = "transcription" /\ Passed(st))
                        => transcript_data = fs0[TranscriptPath(Base)]
            ELSE intr \/ stage[st] \notin {"skipped", "reused"}

(***************************************************************************)
(* C3  A skip flag for extraction or transcription whose artifact is       *)
(* absent makes the job return 1 before any collaborator of any stage is   *)
(* invoked; --skip-summary never fails the job.                            *)
(***************************************************************************)
C3_SkipFailsFirst ==
    /\ (/\ job >= 1
        /\ ~intr
        /\ \/ args.skip_extraction /\ ~Exists(fs0, AudioPath(Base))
           \/ args.skip_transcription /\ ~Exists(fs0, TranscriptPath(Base)))
       => (calls = NoCalls /\ (pc = "done" => exitCode = 1))
    /\ (args.skip_summary /\ ~intr) => stage["summarization"] # "failed"

(***************************************************************************)
(* C4  With --force, every stage without a skip flag that the job reaches  *)
(* and does not abort in invokes its collaborator, whatever is on disk.    *)
(***************************************************************************)
C4_ForceRunsEveryStage ==
    \A st \in Stages :
        (args.force /\ ~SkipFlag(st) /\ stage[st] \notin {"pending", "failed"})
        => /\ StageCalled(st)
           /\ stage[st] \in {"running", "ran"}
           /\ stage[st] = "ran" => \A c \in StageCollaborators(st) : calls[c] = 1

C4_Witness ==
    /\ pc = "done"
    /\ exitCode = 0
    /\ args.force
    /\ NoSkipFlag
    /\ AllArtifactsAtStart
    /\ \A st \in Stages : StageCalled(st)

(***************************************************************************)
(* C5  The audio path handed to transcription is <output_base>_audio.wav   *)
(* whether extraction ran or was skipped, and an extraction that runs      *)
(* writes its audio to that path.                                          *)
(***************************************************************************)
C5_CanonicalAudioPath ==
    /\ pc \in {"step2", "load_model", "transcribe", "recognition"}
          => audio_path = AudioPath(Base)
    /\ stage["extraction"] = "ran" => Fresh(AudioPath(Base))

(***************************************************************************)
(* C6  A transcription run writes <output_base>_transcript.json, .txt and  *)
(* .srt, and a summarization run writes <output_base>_summary.json and     *)
(* <output_base>_summary.md: the paths written are the paths checked.      *)
(***************************************************************************)
C6_WrittenIsChecked ==
    \A st \in {"transcription", "summarization"} :
        stage[st] = "ran" =>
            /\ WrittenPaths(st) = NamedArtifacts(Base, st)
            /\ \A q \in NamedArtifacts(Base, st) : Fresh(q)

(***************************************************************************)
(* C7  A stage that raises, or a flag-skipped stage whose artifact is      *)
(* missing, ends the job: main is in its except clause or has ended, with  *)
(* a nonzero code (with none when a keyboard interrupt arrived inside the  *)
(* except clause), no later stage was attempted, called a collaborator or  *)
(* wrote a file; and a stage is attempted only after the stages before it  *)
(* were gone through.                                                      *)
(***************************************************************************)
C7_AbortEndsJob ==
    \A st \in Stages :
        /\ stage[st] = "failed" =>
              /\ pc \in {"except", "done"}
              /\ pc = "done" =>
                    IF intr_at = "except" THEN exitCode = NoCode
                    ELSE exitCode \in {1, 130}
              /\ \A later \in Stages :
                    StageRank(later) > StageRank(st) =>
                        /\ stage[later] = "pending"
                        /\ ~StageCalled(later)
                        /\ \A q \in WrittenPaths(later) : Untouched(q)
        /\ stage[st] # "pending" =>
              \A before \in Stages :
                  StageRank(before) < StageRank(st) => Passed(before)
        /\ StageCalled(st) => stage[st] \in {"running", "ran", "failed"}

C7_Witness ==
    /\ pc = "done"
    /\ stage["extraction"] = "ran"
    /\ stage["transcription"] = "failed"
    /\ raised = "RuntimeError"
    /\ calls["recognition"] = 1
    /\ exitCode = 1

(***************************************************************************)
(* C8  as stated: the exit code is one of 0, 1, 130; 0 exactly when every  *)
(* stage was skipped or completed without error; 130 exactly when a        *)
(* keyboard interrupt arrived; an interrupt is never reported as 1.        *)
(***************************************************************************)
C8_AsStated ==
    pc = "done" =>
        /\ exitCode \in {0, 1, 130}
        /\ exitCode = 0 <=> \A st \in Stages : Passed(st)
        /\ exitCode = 130 <=> intr
        /\ intr => exitCode # 1

(***************************************************************************)
(* C8  amended: a job that main ends returns 0, 1 or 130; 0 exactly when   *)
(* every stage was skipped or completed without error and the completion   *)
(* report after them ran to its end; 130 exactly when a keyboard interrupt *)
(* arrived inside main's try block (the stages and the completion report), *)
(* also inside a collaborator call whose errors are wrapped; 1 when,       *)
(* without an interrupt, a prerequisite, the video or an artifact was      *)
(* missing or a stage raised. A keyboard interrupt that arrives outside    *)
(* the try block, before it (argument parsing, the requirements check, the *)
(* video test, the creation of the output directory) or while one of       *)
(* main's except clauses is running, is not caught: main returns no code   *)
(* and the KeyboardInterrupt leaves it.                                    *)
(***************************************************************************)
\* the job was interrupted before main entered its try block
InterruptedBeforeTry == intr_at = "before"

C8_ExitCodes ==
    /\ pc = "done" =>
          /\ exitCode \in {0, 1, 130, NoCode}
          /\ exitCode = 0 <=> (~intr /\ \A st \in Stages : Passed(st))
          /\ exitCode = 130 <=> intr_at = "try"
          /\ exitCode = 1 <=> (~intr /\ \E st \in Stages : ~Passed(st))
          /\ exitCode = NoCode <=> intr_at \in {"before", "except"}
          /\ exitCode = NoCode => raised = "KeyboardInterrupt"
          /\ InterruptedBeforeTry =>
                 stage = AllPending /\ calls = NoCalls /\ fs = fs0
          /\ IsException(raised) => exitCode = 1
    /\ pc # "done" => exitCode = NoCode
    /\ intr <=> intr_at # None

C8_Witness ==
    /\ pc = "done"
    /\ intr
    /\ response = "KeyboardInterrupt"
    /\ calls["call2"] = 1
    /\ exitCode = 130

(***************************************************************************)
(* C9  When Call 1 succeeded and Call 2 yields no parseable JSON, the      *)
(* summary record keeps Call 1's narrative, structured_data is the empty   *)
(* object, both summary files are written and the job returns 0: the       *)
(* extraction goes on to its warning and returns the empty object,         *)
(* summarize_meeting returns the record to main, save_summary writes both  *)
(* files and, unless a keyboard interrupt ends the job, main returns 0.    *)
(***************************************************************************)
\* Call 2 raised an API error or returned a text that does not parse
Call2Failed ==
    /\ outcome["call1"] = "ok"
    /\ warned \/ response \in {"APIError", "prose"}

\* the record main holds after summarize_meeting returned
KeptRecord == [summary |-> summary_text, structured_data |-> EmptyObject]

C9_Call2FailureKeepsNarrative ==
    Call2Failed =>
        /\ summary_text \in Narratives
        /\ pc \in {"call2_return", "summarize_return", "save_summary_json",
                  "save_summary_md", "report", "except", "done"}
        /\ pc = "except" => intr
        /\ pc = "call2_return" => ~warned
        /\ pc = "summarize_return" => warned /\ structured_data = EmptyObject
        /\ summary_result \in {NoResult, KeptRecord}
        /\ ~warned => summary_result = NoResult
        /\ (pc \in {"save_summary_json", "save_summary_md", "report"}
               \/ (pc = "done" /\ ~intr))
              => warned /\ summary_result = KeptRecord
        /\ (pc = "report" \/ (pc = "done" /\ ~intr))
              => \A q \in WrittenPaths("summarization") : Fresh(q)
        /\ (pc = "done" /\ ~intr) => exitCode = 0

\* Call 2 returned prose in a job that ran to its end
C9_Witness ==
    /\ pc = "done"
    /\ response = "prose"
    /\ warned
    /\ summary_result.summary \in Narratives
    /\ summary_result.structured_data = EmptyObject
    /\ exitCode = 0

(***************************************************************************)
(* C10  Stage write atomicity: a stage that fails leaves every file it     *)
(* writes as it was, and a stage that completes has written its full       *)
(* artifact set.                                                           *)
(***************************************************************************)
C10_AtomicStageWrites ==
    \A st \in Stages :
        /\ stage[st] = "failed" => \A q \in WrittenPaths(st) : Untouched(q)
        /\ stage[st] = "ran" => \A q \in WrittenPaths(st) : Fresh(q)

(***************************************************************************)
(* C11  Every failure of a collaborator call made by a running stage       *)
(* (ffmpeg, recognition, Call 1, Call 2) ends the job with exit code 1,    *)
(* and no collaborator is invoked more than once in a job.                 *)
(***************************************************************************)
C11_CollaboratorFailureIsFatal ==
    \A c \in Collaborators :
        /\ calls[c] <= 1
        /\ outcome[c] = "error" =>
              /\ pc \in {"extract_audio_handler", "summarize_handler",
                        "call2_return", "except", "done"}
              /\ (pc = "done" /\ ~intr) => exitCode = 1
              /\ (pc \in {"except", "done"} /\ ~intr) => IsException(raised)

(***************************************************************************)
(* C12  A failure of Call 1 fails the summarization stage as a whole:      *)
(* Call 2 is not made, no narrative and no record exist, neither summary   *)
(* file is created or modified and the job exits 1 (130 or no code when a  *)
(* keyboard interrupt ends it before main has returned).  Call 2 is made   *)
(* only after Call 1 succeeded, and its input is the narrative Call 1      *)
(* returned.                                                               *)
(***************************************************************************)
C12_Call1FailureIsFatal ==
    /\ outcome["call1"] = "error" =>
          /\ calls["call2"] = 0
          /\ \A p \in WrittenPaths("summarization")
                      \cup NamedArtifacts(Base, "summarization") :
                Untouched(p)
          /\ pc \in {"summarize_handler", "except", "done"}
          /\ stage["summarization"] =
                IF pc = "summarize_handler" THEN "running" ELSE "failed"
          /\ summary_text = None
          /\ summary_result = NoResult
          /\ (pc = "done" /\ ~intr) => exitCode = 1
          /\ (pc = "done" /\ intr) =>
                exitCode = IF intr_at = "except" THEN NoCode ELSE 130
    /\ calls["call2"] > 0 =>
          /\ outcome["call1"] = "ok"
          /\ summary_text \in Narratives
          /\ sent.call2 = summary_text

\* Call 1 failed in a job that found both summary files on disk
C12_Witness ==
    /\ outcome["call1"] = "error"
    /\ pc = "done"
    /\ exitCode = 1
    /\ \A p \in NamedArtifacts(Base, "summarization") : Exists(fs0, p)

(***************************************************************************)
(* C13  Missing prerequisites (ffmpeg absent, API key unset) are detected  *)
(* before any stage: unless --skip-extraction and --skip-summary are both  *)
(* set, the job exits 1 having invoked no stage and having created or      *)
(* modified no file (a job interrupted before the test ends there too,     *)
(* with no code); with both flags set the job is never ended by a missing  *)
(* prerequisite, it goes on to its stages.                                 *)
(***************************************************************************)
PrerequisiteMissing == ~env.ffmpeg \/ ~env.key

BothSkipped == args.skip_extraction /\ args.skip_summary

\* main ended without entering any stage: it returned 1, or an interrupt
\* that arrived before the test left it
EndedBeforeAnyStage ==
    /\ pc = "done"
    /\ IF intr THEN exitCode = NoCode ELSE exitCode = 1 /\ raised = None
    /\ calls = NoCalls
    /\ stage = AllPending
    /\ fs = fs0
    /\ ~made_dir

C13_RequirementsGate ==
    pc # "idle" =>
       /\ (PrerequisiteMissing /\ ~BothSkipped) => EndedBeforeAnyStage
       /\ (BothSkipped /\ ~InterruptedBeforeTry) =>
             /\ made_dir
             /\ stage # AllPending \/ pc = "step1"
             /\ (pc = "done" /\ exitCode = 1) =>
                    \E st \in Stages : stage[st] = "failed"

\* the API key alone is missing and extraction is skipped: the job ended
\* at the gate
C13_Witness ==
    /\ job > 0
    /\ env.ffmpeg /\ ~env.key
    /\ args.skip_extraction /\ ~args.skip_summary
    /\ pc = "done"
    /\ exitCode = 1
    /\ fs # << >>

(***************************************************************************)
(* C15  The video must exist unless extraction is skipped: a job whose     *)
(* extraction is skipped, by --skip-extraction or by reuse of the audio    *)
(* on disk, is never ended for a missing video; a job whose extraction is  *)
(* going to run and whose video is missing exits 1 before any              *)
(* collaborator is invoked and before any file or directory is created (a  *)
(* job interrupted before the test ends there too, with no code).          *)
(***************************************************************************)
\* the decision of step 1, taken on the disk the job found: extraction is
\* skipped by its flag or by reuse
ExtractionSkipped ==
    \/ args.skip_extraction
    \/ ReuseExisting(args.force, Exists(fs0, AudioPath(Base)))

C15_VideoMustExist ==
    pc # "idle" =>
       /\ (~env.video_exists /\ ~ExtractionSkipped) => EndedBeforeAnyStage
       /\ (~env.video_exists /\ ExtractionSkipped
             /\ (BothSkipped \/ ~PrerequisiteMissing)
             /\ ~InterruptedBeforeTry) =>
             /\ made_dir
             /\ calls["ffmpeg"] = 0
             /\ stage["extraction"] \in {"pending", "skipped", "reused", "failed"}
             /\ (exitCode = 1 /\ stage["extraction"] = "failed") =>
                    ~Exists(fs0, AudioPath(Base))

(***************************************************************************)
(* C14  A job aborted during stage k, by an interrupt or by a failure of   *)
(* the stage, leaves the artifacts of every earlier stage intact: those    *)
(* an earlier stage wrote in this job stay as it wrote them, those that    *)
(* were on disk before the job stay as they were.                          *)
(***************************************************************************)
C14_EarlierArtifactsIntact ==
    \A k \in Stages, s \in Stages :
        (stage[k] = "failed" /\ StageRank(s) < StageRank(k)) =>
            \A p \in WrittenPaths(s) \cup ArtifactSet(video, Base, s)
                        \cup NamedArtifacts(Base, s) :
                IF stage[s] = "ran" /\ p \in WrittenPaths(s)
                THEN Fresh(p)
                ELSE Untouched(p)

\* summarization was interrupted after it wrote its first file, in a job
\* that extracted the audio and reused the transcript on disk
C14_Witness ==
    /\ stage["summarization"] = "failed"
    /\ intr
    /\ Exists(fs, SavedSummaryPath(Base, "json"))
    /\ fs[SavedSummaryPath(Base, "json")].gen = job
    /\ stage["transcription"] = "reused"
    /\ stage["extraction"] = "ran"

(***************************************************************************)
(* C16  Without --force the reuse of a stage depends on its own artifact   *)
(* only: when the audio artifact is absent and the transcript JSON is      *)
(* present, extraction runs and writes new audio, transcription is reused  *)
(* all the same, and summarization is given the transcript that was on     *)
(* disk, not one made from the new audio. Reuse is the decision also when  *)
(* the transcript JSON on disk was cut short: nothing is recognised anew,  *)
(* the load of the file fails and the job ends there.                      *)
(***************************************************************************)
AudioAbsentTranscriptPresent ==
    /\ made_dir
    /\ ~args.force /\ ~args.skip_extraction /\ ~args.skip_transcription
    /\ ~Exists(fs0, AudioPath(Base))
    /\ Exists(fs0, TranscriptPath(Base))

C16_ReuseLooksAtOwnArtifact ==
    AudioAbsentTranscriptPresent =>
       /\ stage["extraction"] \in {"pending", "running", "ran", "failed"}
       /\ (pc = "step2" \/ stage["transcription"] # "pending") =>
             /\ stage["extraction"] = "ran"
             /\ calls["ffmpeg"] = 1
             /\ Fresh(ExtractOutputPath(video))
       /\ (pc = "step3" \/ stage["summarization"] # "pending") =>
             /\ stage["transcription"] = "reused"
             /\ transcript_data = fs0[TranscriptPath(Base)]
             /\ fs0[TranscriptPath(Base)].whole
       /\ stage["transcription"] \in {"pending", "reused", "failed"}
       /\ (stage["transcription"] = "failed" /\ ~intr) =>
             /\ ~fs0[TranscriptPath(Base)].whole
             /\ raised = "JSONDecodeError"
             /\ pc = "done" => exitCode = 1
       /\ calls["load_model"] = 0
       /\ calls["recognition"] = 0
       /\ Untouched(TranscriptPath(Base))
       /\ calls["call1"] > 0 =>
             /\ sent.call1 = full_transcript(fs0[TranscriptPath(Base)])
             /\ fs0[TranscriptPath(Base)].gen < job

\* Call 1 was made in a job that extracted new audio and found the
\* transcript of an earlier run
C16_Witness ==
    /\ AudioAbsentTranscriptPresent
    /\ calls["call1"] = 1
    /\ stage["extraction"] = "ran"
    /\ Fresh(ExtractOutputPath(video))

(***************************************************************************)
(* C17  A stage that is skipped, by its flag or by reuse, creates,         *)
(* modifies and deletes no file: the step that skips it leaves every file  *)
(* and its contents as they were, the skipped stage's own files stay as    *)
(* they were when the job started, and no step ever deletes a file.        *)
(***************************************************************************)
SkippedStep(st) ==
    /\ stage[st] \notin {"skipped", "reused"}
    /\ stage'[st] \in {"skipped", "reused"}

C17_SkippedStageTouchesNothing ==
    [][ /\ \A st \in Stages : SkippedStep(st) => fs' = fs
        /\ \A st \in Stages :
              stage[st] \in {"skipped", "reused"} =>
                  \A p \in ArtifactSet(video, Base, st) \cup NamedArtifacts(Base, st) :
                     Untouched(p)
        /\ \A p \in DOMAIN fs : p \in DOMAIN fs'
      ]_vars

\* a job that reused the audio and skipped transcription and summarization
\* by their flags, after an earlier invocation had written files
C17_Witness ==
    /\ job = 2
    /\ stage["extraction"] = "reused"
    /\ stage["transcription"] = "skipped"
    /\ stage["summarization"] = "skipped"
    /\ \E p \in DOMAIN fs : fs[p].gen = 1

(***************************************************************************)
(* C18  Once Call 1 has succeeded the summarization stage completes and    *)
(* writes both summary files whatever Call 2 returns (an error, an empty   *)
(* object, items lacking keys, JSON that is not an object): save_summary   *)
(* does not raise and the job exits 0.                                     *)
(***************************************************************************)
Call2Answered ==
    /\ outcome["call1"] = "ok"
    /\ outcome["call2"] \in {"ok", "error"}
    /\ ~intr
    /\ pc \in {"report", "done"}

SummarizationCompleted ==
    /\ stage["summarization"] = "ran"
    /\ \A p \in WrittenPaths("summarization") : Fresh(p)
    /\ pc = "done" => exitCode = 0

C18_SummarizationAlwaysCompletes == Call2Answered => SummarizationCompleted

(***************************************************************************)
(* C19  The parsing of Call 2's response returns the JSON object carried   *)
(* by the response whether it is bare, inside a fenced block without       *)
(* language tag or inside a fenced block with any language tag: a valid    *)
(* JSON payload gives the same object in every shape and is not degraded   *)
(* to the empty result.                                                    *)
(***************************************************************************)
C19_ShapesParseAlike ==
    (/\ outcome["call2"] = "ok"
     /\ response \in JsonPayloads
     /\ pc \in {"save_summary_json", "save_summary_md", "report"}) =>
        /\ summary_result.structured_data = JsonValue(response)
        /\ ~warned

(***************************************************************************)
(* The SRT file of a transcript: Transcriber._save_srt and                 *)
(* Transcriber._format_timestamp.  A time is written as a whole number of  *)
(* ticks, TicksPerSecond ticks to the second: 45600 ticks are the 4.56 of  *)
(* a transcript.  The code holds the time as a Python float, the binary64  *)
(* number nearest to that decimal, and computes the fields in floating     *)
(* point; the operators below do that arithmetic bit by bit.  A line of    *)
(* the file is the sequence of its characters, a digit string being split  *)
(* into digits.                                                            *)
(***************************************************************************)
MaxSegs == 2
TicksPerSecond == 10000
SecondsPerHour == 3600
SecondsPerMinute == 60
MillisPerSecond == 1000

\* sys.float_info.mant_dig: the significant bits of a float
mant_dig == 53

Arrow == " --> "

\* str(n), one character per digit
RECURSIVE Digits(_)
Digits(n) ==
    IF n < 10 THEN <<ToString(n)>>
    ELSE Digits(n \div 10) \o <<ToString(n % 10)>>

\* format(n, "0<w>d"): zeros in front up to width w
RECURSIVE zfill(_, _)
zfill(ds, w) == IF Len(ds) < w THEN zfill(<<"0">> \o ds, w) ELSE ds

\* a natural number as its binary digits, the highest first
RECURSIVE bits(_)
bits(n) == IF n = 0 THEN << >> ELSE bits(n \div 2) \o <<n % 2>>

\* the number that binary digits b denote
RECURSIVE nat(_)
nat(b) ==
    IF b = << >> THEN 0 ELSE 2 * nat(SubSeq(b, 1, Len(b) - 1)) + b[Len(b)]

zeros(k) == [i \in 1..k |-> 0]

\* b without zeros in front
norm(b) ==
    LET ones == {i \in 1..Len(b) : b[i] = 1}
    IN  IF ones = {} THEN << >>
        ELSE SubSeq(b, CHOOSE i \in ones : \A j \in ones : i <= j, Len(b))

\* b + 1
inc(b) ==
    LET nought == {i \in 1..Len(b) : b[i] = 0}
        last   == CHOOSE i \in nought : \A j \in nought : j <= i
    IN  IF nought = {} THEN <<1>> \o zeros(Len(b))
        ELSE SubSeq(b, 1, last - 1) \o <<1>> \o zeros(Len(b) - last)

\* digits b divided by a small q, r being the remainder brought in from
\* the digits in front: as many quotient digits, and the remainder left
RECURSIVE divmod(_, _, _)
divmod(b, q, r) ==
    IF b = << >> THEN [quot |-> << >>, rem |-> r]
    ELSE IF Len(b) = 1
    THEN [quot |-> <<(2 * r + b[1]) \div q>>, rem |-> (2 * r + b[1]) % q]
    ELSE LET half  == Len(b) \div 2
             front == divmod(SubSeq(b, 1, half), q, r)
             back  == divmod(SubSeq(b, half + 1, Len(b)), q, front.rem)
         IN  [quot |-> front.quot \o back.quot, rem |-> back.rem]

\* b with its digits in the opposite order
reversed(b) == [i \in 1..Len(b) |-> b[Len(b) + 1 - i]]

\* digits b, the lowest first, times a small c, plus the carry brought in
\* from the lower digits: as many product digits, and the carry left over
RECURSIVE mulcarry(_, _, _)
mulcarry(b, c, carry) ==
    IF b = << >> THEN [prod |-> << >>, over |-> carry]
    ELSE IF Len(b) = 1
    THEN [prod |-> <<(b[1] * c + carry) % 2>>,
          over |-> (b[1] * c + carry) \div 2]
    ELSE LET half == Len(b) \div 2
             low  == mulcarry(SubSeq(b, 1, half), c, carry)
             high == mulcarry(SubSeq(b, half + 1, Len(b)), c, low.over)
         IN  [prod |-> low.prod \o high.prod, over |-> high.over]

\* b * c for a small c
times(b, c) ==
    LET m == mulcarry(reversed(b), c, 0)
    IN  norm(bits(m.over) \o reversed(m.prod))

\* round to nearest, ties to even: kept digits, and what was cut off
\* compared with half a unit of the last kept digit
round_half_even(kept, above_half, exactly_half) ==
    IF above_half \/ (exactly_half /\ kept # << >> /\ kept[Len(kept)] = 1)
    THEN inc(kept) ELSE kept

\* the float nearest to t / TicksPerSecond, as mant * 2^-exp
float(t) ==
    IF t = 0 THEN [mant |-> << >>, exp |-> 0]
    ELSE LET e1 == mant_dig + Len(bits(TicksPerSecond)) - 1 - Len(bits(t))
             d1 == divmod(bits(t) \o zeros(e1), TicksPerSecond, 0)
             e  == IF Len(norm(d1.quot)) = mant_dig THEN e1 ELSE e1 + 1
             d  == IF e = e1 THEN d1
                   ELSE divmod(bits(t) \o zeros(e), TicksPerSecond, 0)
         IN  [mant |-> round_half_even(norm(d.quot),
                                       2 * d.rem > TicksPerSecond,
                                       2 * d.rem = TicksPerSecond),
              exp  |-> e]

\* x % 1 of a float x >= 0: exact
mod1(x) ==
    [mant |-> norm(IF Len(x.mant) <= x.exp THEN x.mant
                   ELSE SubSeq(x.mant, Len(x.mant) - x.exp + 1, Len(x.mant))),
     exp  |-> x.exp]

\* x * c of a float x >= 0 and a small whole c: the product, rounded
mul(x, c) ==
    LET p    == times(x.mant, c)
        drop == Len(p) - mant_dig
        lost == SubSeq(p, mant_dig + 1, Len(p))
    IN  IF drop <= 0 THEN [mant |-> p, exp |-> x.exp]
        ELSE [mant |-> round_half_even(
                          SubSeq(p, 1, mant_dig),
                          lost[1] = 1 /\ \E j \in 2..drop : lost[j] = 1,
                          lost[1] = 1 /\ \A j \in 2..drop : lost[j] = 0),
              exp  |-> x.exp - drop]

\* int(x) of a float x >= 0
int(x) ==
    IF x.exp <= 0 THEN nat(x.mant \o zeros(0 - x.exp))
    ELSE IF Len(x.mant) <= x.exp THEN 0
    ELSE nat(SubSeq(x.mant, 1, Len(x.mant) - x.exp))

\* _format_timestamp(seconds), seconds = float(t).  x // c and x % c of a
\* float x and a whole c are exact in the whole seconds, so they are taken
\* on int(seconds); the milliseconds are cut from the rounded product
format_timestamp(t) ==
    LET seconds == float(t)
        hours   == int(seconds) \div SecondsPerHour
        minutes == (int(seconds) % SecondsPerHour) \div SecondsPerMinute
        secs    == int(seconds) % SecondsPerMinute
        millis  == int(mul(mod1(seconds), MillisPerSecond))
    IN  zfill(Digits(hours), 2) \o <<":">> \o zfill(Digits(minutes), 2) \o <<":">>
           \o zfill(Digits(secs), 2) \o <<",">> \o zfill(Digits(millis), 3)

\* _save_srt, lines 141-146: the four lines written for segment number i
srt_block(i, segment) ==
    << Digits(i),
       format_timestamp(segment.start) \o <<Arrow>> \o format_timestamp(segment.end),
       <<segment.text>>,
       << >> >>

\* _save_srt, line 139: for i, segment in enumerate(segments, 1)
RECURSIVE save_srt(_, _)
save_srt(segs, i) ==
    IF i > Len(segs) THEN << >>
    ELSE srt_block(i, segs[i]) \o save_srt(segs, i + 1)

\* the times of the segments: 0 s, 0.0625 s, 1.001 s, 2.3 s, 4.56 s,
\* 59.9375 s, 1 h, 1 h 1 min 1.5625 s
Times == {0, 625, 10010, 23000, 45600,
          59 * TicksPerSecond + 9375,
          SecondsPerHour * TicksPerSecond,
          (SecondsPerHour + SecondsPerMinute + 1) * TicksPerSecond + 5625}

\* the segments recognition returns: a segment ends no earlier than it starts
Segments == {sg \in [start : Times, end : Times, text : {"hello"}] :
                sg.start <= sg.end}

SegmentLists == UNION {[1..n -> Segments] : n \in 0..MaxSegs}

\* save_transcript is about to write the SRT file of a transcript, in a
\* job that found the audio on disk: the model was loaded, recognition has
\* returned, the JSON and the text file are written
InitSrt ==
    /\ segments \in SegmentLists
    /\ srt_file = << >>
    /\ result = << >>
    /\ transcript_result = NoTranscript
    /\ size = 0
    /\ size_str = NoSize
    /\ pc = "save_srt"
    /\ video = <<"demo", ".", "mkv">>
    /\ output = NoOutput
    /\ fs0 = [q \in {AudioPath(stem(video))} |-> Content(0, TRUE)]
    /\ fs = [q \in {AudioPath(stem(video)),
                    SavedTranscriptPath(TranscriptOutput(stem(video)), "json"),
                    SavedTranscriptPath(TranscriptOutput(stem(video)), "txt")}
               |-> IF q = AudioPath(stem(video)) THEN Content(0, TRUE)
                   ELSE Content(1, TRUE)]
    /\ job = 1
    /\ args = NoFlags
    /\ env = [ffmpeg |-> TRUE, key |-> TRUE, video_exists |-> TRUE]
    /\ exitCode = NoCode
    /\ raised = None
    /\ intr = FALSE
    /\ intr_at = None
    /\ stage = [extraction |-> "reused", transcription |-> "running",
                summarization |-> "pending"]
    /\ calls = [NoCalls EXCEPT !["load_model"] = 1, !["recognition"] = 1]
    /\ audio_path = AudioPath(stem(video))
    /\ transcript_data = Content(1, TRUE)
    /\ summary_text = None
    /\ warned = FALSE
    /\ response = None
    /\ response_text = NoText
    /\ structured_data = NoValue
    /\ summary_result = NoResult
    /\ prev = FALSE
    /\ outcome = [NoOutcome EXCEPT !["load_model"] = "ok",
                                   !["recognition"] = "ok"]
    /\ sent = NothingSent
    /\ made_dir = TRUE

\* save_transcript, lines 130-133: _save_srt writes the file
SaveSrt ==
    /\ pc = "save_srt"
    /\ srt_file' = save_srt(segments, 1)
    /\ fs' = Put(fs, SavedTranscriptPath(TranscriptOutput(Base), "srt"),
                 transcript_data)
    /\ stage' = Mark("transcription", "ran")
    /\ pc' = "step3"
    /\ UNCHANGED <<video, output, job, args, env, exitCode, raised, intr, intr_at,
                   calls, audio_path, transcript_data, summary_text,
                   warned, response, response_text, structured_data, summary_result, fs0, prev, outcome, sent,
                   made_dir, segments, result, transcript_result, size,
                   size_str>>

NextSrt == SaveSrt

SrtSpec == InitSrt /\ [][NextSrt]_vars

(***************************************************************************)
(* C20  For every list of n segments the SRT file has exactly n blocks;    *)
(* block i is numbered i and carries the start and the end of segment i    *)
(* as HH:MM:SS,mmm, HH the whole hours, MM the whole minutes within the    *)
(* hour, SS the whole seconds within the minute, mmm the milliseconds      *)
(* truncated, each zero-padded; 0 s is 00:00:00,000, times of an hour or   *)
(* more are covered, and for n = 0 the file is empty.                      *)
(***************************************************************************)
\* the number a digit string denotes
RECURSIVE Value(_)
Value(ds) ==
    IF ds = << >> THEN 0
    ELSE 10 * Value(SubSeq(ds, 1, Len(ds) - 1))
            + (CHOOSE d \in 0..9 : ToString(d) = ds[Len(ds)])

\* the time in whole milliseconds, the rest cut off
TruncatedMillis(t) ==
    (t \div TicksPerSecond) * 1000 + ((t % TicksPerSecond) * 1000) \div TicksPerSecond

\* characters s spell time t as HH:MM:SS,mmm
Spells(s, t) ==
    /\ Len(s) = 12
    /\ s[3] = ":" /\ s[6] = ":" /\ s[9] = ","
    /\ Value(SubSeq(s, 1, 2))   = TruncatedMillis(t) \div 3600000
    /\ Value(SubSeq(s, 4, 5))   = (TruncatedMillis(t) \div 60000) % 60
    /\ Value(SubSeq(s, 7, 8))   = (TruncatedMillis(t) \div 1000) % 60
    /\ Value(SubSeq(s, 10, 12)) = TruncatedMillis(t) % 1000

C20_SrtBlocks ==
    pc = "step3" =>
       /\ Len(srt_file) = 4 * Len(segments)
       /\ segments = << >> => srt_file = << >>
       /\ \A i \in 1..Len(segments) :
             /\ srt_file[4 * i - 3] # << >>
             /\ srt_file[4 * i - 3][1] # "0"
             /\ Value(srt_file[4 * i - 3]) = i
             /\ Len(srt_file[4 * i - 2]) = 25
             /\ Spells(SubSeq(srt_file[4 * i - 2], 1, 12), segments[i].start)
             /\ srt_file[4 * i - 2][13] = Arrow
             /\ Spells(SubSeq(srt_file[4 * i - 2], 14, 25), segments[i].end)
             /\ segments[i].start = 0 =>
                   SubSeq(srt_file[4 * i - 2], 1, 12) =
                      <<"0", "0", ":", "0", "0", ":", "0", "0", ",", "0", "0", "0">>
             /\ srt_file[4 * i - 1] = <<segments[i].text>>
             /\ srt_file[4 * i] = << >>

(***************************************************************************)
(* The record Transcriber.transcribe builds from the segments the model    *)
(* returned.  A text is the sequence of its characters; times are in       *)
(* ticks as above.                                                         *)
(***************************************************************************)
Space == " "
Whitespace == {Space, NL}

\* str.lstrip() and str.rstrip() of a text
RECURSIVE text_lstrip(_)
text_lstrip(t) ==
    IF t # << >> /\ Head(t) \in Whitespace THEN text_lstrip(Tail(t)) ELSE t

RECURSIVE text_rstrip(_)
text_rstrip(t) ==
    IF t # << >> /\ t[Len(t)] \in Whitespace
    THEN text_rstrip(SubSeq(t, 1, Len(t) - 1))
    ELSE t

\* a strip that trims the front only
text_strip_front(t) == text_lstrip(t)

\* segment["text"].strip()
text_strip(t) == text_rstrip(text_lstrip(t))

\* sep.join(xs)
RECURSIVE join(_, _)
join(sep, xs) ==
    IF xs = << >> THEN << >>
    ELSE IF Len(xs) = 1 THEN xs[1]
    ELSE xs[1] \o sep \o join(sep, Tail(xs))

\* dict.get(key, default)
get(d, key, default) == IF key \in DOMAIN d THEN d[key] ELSE default

\* transcribe, lines 80-85: the entry stored for one word
word_data(word) ==
    [word        |-> get(word, "word", << >>),
     start       |-> get(word, "start", 0),
     end         |-> get(word, "end", 0),
     probability |-> get(word, "probability", 1)]

\* transcribe, lines 71-86: the entry stored for one segment
segment_data(segment) ==
    [start |-> segment.start,
     end   |-> segment.end,
     text  |-> text_strip(segment.text),
     words |-> IF "words" \in DOMAIN segment /\ segment.words # << >>
               THEN [i \in 1..Len(segment.words) |-> word_data(segment.words[i])]
               ELSE << >>]

\* a duration taken from the first segment
duration_of_first(transcript_segments) ==
    IF transcript_segments # << >> THEN transcript_segments[1].end ELSE 0

\* transcribe, line 92
duration(transcript_segments) ==
    IF transcript_segments # << >>
    THEN transcript_segments[Len(transcript_segments)].end
    ELSE 0

\* transcribe, lines 66-100: the record built from result["segments"]
transcribe(segs) ==
    LET transcript_segments == [i \in 1..Len(segs) |-> segment_data(segs[i])]
        full_text == [i \in 1..Len(segs) |-> text_strip(segs[i].text)]
    IN  [duration        |-> duration(transcript_segments),
         full_transcript |-> join(<<Space>>, full_text),
         segments        |-> transcript_segments]

\* what the model returns: texts with and without surrounding whitespace,
\* segments with words, with an empty list of words and without the key
RawTexts == { <<"a">>, <<Space, "a", Space, "b", NL>>, <<Space>> }

RawTimes == {0, TicksPerSecond + TicksPerSecond \div 2}

RawWords == { << >>,
              << [word |-> <<Space, "a">>, start |-> 0, end |-> TicksPerSecond \div 2,
                  probability |-> 1] >>,
              << [word |-> <<"a">>] >> }

RawSegments ==
    {sg \in [start : RawTimes, end : RawTimes, text : RawTexts] :
        sg.start <= sg.end}
    \cup {sg \in [start : RawTimes, end : RawTimes, text : RawTexts,
                  words : RawWords] : sg.start <= sg.end}

RawSegmentLists == UNION {[1..n -> RawSegments] : n \in 0..MaxSegs}

\* model.transcribe has returned its segments to transcribe
InitTranscribe ==
    /\ result \in RawSegmentLists
    /\ transcript_result = NoTranscript
    /\ segments = << >>
    /\ srt_file = << >>
    /\ size = 0
    /\ size_str = NoSize
    /\ pc = "recognition"
    /\ video = <<"demo", ".", "mkv">>
    /\ output = NoOutput
    /\ fs = [q \in {AudioPath(stem(video))} |-> Content(0, TRUE)]
    /\ fs0 = fs
    /\ job = 1
    /\ args = NoFlags
    /\ env = [ffmpeg |-> TRUE, key |-> TRUE, video_exists |-> TRUE]
    /\ exitCode = NoCode
    /\ raised = None
    /\ intr = FALSE
    /\ intr_at = None
    /\ stage = [extraction |-> "reused", transcription |-> "running",
                summarization |-> "pending"]
    /\ calls = [NoCalls EXCEPT !["load_model"] = 1, !["recognition"] = 1]
    /\ audio_path = AudioPath(stem(video))
    /\ transcript_data = Unbound
    /\ summary_text = None
    /\ warned = FALSE
    /\ response = None
    /\ response_text = NoText
    /\ structured_data = NoValue
    /\ summary_result = NoResult
    /\ prev = FALSE
    /\ outcome = [NoOutcome EXCEPT !["load_model"] = "ok"]
    /\ sent = NothingSent
    /\ made_dir = TRUE

\* transcribe, lines 63-104: the record is built and returned
Transcribe ==
    /\ pc = "recognition"
    /\ transcript_result' = transcribe(result)
    /\ transcript_data' = Content(job, TRUE)
    /\ outcome' = Returned("recognition", None)
    /\ pc' = "save_json"
    /\ UNCHANGED <<video, output, fs, job, args, env, exitCode, raised, intr, intr_at,
                   stage, calls, audio_path, summary_text, warned, response, response_text, structured_data,
                   summary_result, fs0, prev, sent, made_dir, segments,
                   srt_file, result, size, size_str>>

NextTranscribe == Transcribe

TranscribeSpec == InitTranscribe /\ [][NextTranscribe]_vars

(***************************************************************************)
(* C21  For every list of segments the model returns, full_transcript is   *)
(* the segment texts, each trimmed of surrounding whitespace, in segment   *)
(* order and joined by single spaces; the stored segments keep the order   *)
(* and carry the same trimmed texts; with no segment full_transcript is    *)
(* the empty string.                                                       *)
(***************************************************************************)
\* t is raw without the whitespace around it
Trimmed(raw, t) ==
    /\ t # << >> => (t[1] \notin Whitespace /\ t[Len(t)] \notin Whitespace)
    /\ \E a \in 0..Len(raw) :
          /\ a + Len(t) <= Len(raw)
          /\ SubSeq(raw, a + 1, a + Len(t)) = t
          /\ \A k \in 1..a : raw[k] \in Whitespace
          /\ \A k \in (a + Len(t) + 1)..Len(raw) : raw[k] \in Whitespace

\* where the text of stored segment i starts in full_transcript, less one
RECURSIVE Offset(_)
Offset(i) ==
    IF i = 1 THEN 0
    ELSE Offset(i - 1) + Len(transcript_result.segments[i - 1].text) + 1

C21_FullTranscript ==
    pc = "save_json" =>
       LET stored == transcript_result.segments
           full   == transcript_result.full_transcript
           n      == Len(result)
       IN  /\ Len(stored) = n
           /\ n = 0 => full = << >>
           /\ n > 0 => Len(full) = Offset(n) + Len(stored[n].text)
           /\ \A i \in 1..n :
                 /\ Trimmed(result[i].text, stored[i].text)
                 /\ stored[i].start = result[i].start
                 /\ stored[i].end = result[i].end
                 /\ SubSeq(full, Offset(i) + 1, Offset(i) + Len(stored[i].text))
                       = stored[i].text
                 /\ i < n => full[Offset(i) + Len(stored[i].text) + 1] = Space

\* two segments were stored, the first from a text with whitespace on both
\* sides
C21_Witness ==
    /\ pc = "save_json"
    /\ Len(result) = 2
    /\ result[1].text = <<Space, "a", Space, "b", NL>>
    /\ result[2].text = <<"a">>
    /\ transcript_result.full_transcript = <<"a", Space, "b", Space, "a">>

(***************************************************************************)
(* C22  For every list of segments the model returns, the duration of the  *)
(* transcript is the end time of the last segment of the list, and 0,      *)
(* without error, when there is no segment; a segment without word-level   *)
(* data is stored with an empty list of words and does not fail the        *)
(* stage.                                                                  *)
(***************************************************************************)
NoWordData(segment) ==
    "words" \notin DOMAIN segment \/ segment.words = << >>

C22_Duration ==
    pc = "save_json" =>
       /\ raised = None
       /\ outcome["recognition"] = "ok"
       /\ result = << >> => transcript_result.duration = 0
       /\ result # << >> =>
             transcript_result.duration = result[Len(result)].end
       /\ \A i \in 1..Len(result) :
             /\ NoWordData(result[i]) =>
                   transcript_result.segments[i].words = << >>
             /\ ~NoWordData(result[i]) =>
                   Len(transcript_result.segments[i].words)
                      = Len(result[i].words)

\* two segments were stored, the last ending before the first, one without
\* the words key and one with an empty list of words
C22_Witness ==
    /\ pc = "save_json"
    /\ Len(result) = 2
    /\ result[2].end < result[1].end
    /\ "words" \notin DOMAIN result[1]
    /\ "words" \in DOMAIN result[2]
    /\ result[2].words = << >>
    /\ transcript_result.duration = 0

(***************************************************************************)
(* The size the completion report prints for a file: main, lines 232-240.  *)
(* The printed text is the sequence of its parts, digits one by one.       *)
(***************************************************************************)
SizeSpread == 12
Kilo == 1024
Mega == Kilo * Kilo

\* format(size / unit, ".1f"): the quotient in tenths, rounded to nearest,
\* a tie going to the even tenth; the division by a power of two is exact
one_decimal(sz, unit) ==
    LET q == (sz * 10) \div unit
        r == (sz * 10) % unit
        tenths == IF 2 * r > unit \/ (2 * r = unit /\ q % 2 = 1) THEN q + 1 ELSE q
    IN  Digits(tenths \div 10) \o <<".">> \o Digits(tenths % 10)

\* main, lines 234-239
format_size(sz) ==
    IF sz > Mega THEN one_decimal(sz, Mega) \o <<" MB">>
    ELSE IF sz > Kilo THEN one_decimal(sz, Kilo) \o <<" KB">>
    ELSE Digits(sz) \o <<" bytes">>

\* the sizes of the listed file: small ones, those around 1024 and around
\* 1024 * 1024, and one that is 1.25 KB
Sizes == (0..SizeSpread)
         \cup ((Kilo - SizeSpread)..(Kilo + SizeSpread))
         \cup ((Mega - SizeSpread)..(Mega + SizeSpread))
         \cup {Kilo + 256}

\* a job that found the audio and the transcript on disk and was told to
\* skip transcription and summarization: every stage is done, main is about
\* to print the report
InitReport ==
    /\ size \in Sizes
    /\ size_str = NoSize
    /\ pc = "report"
    /\ result = << >>
    /\ transcript_result = NoTranscript
    /\ segments = << >>
    /\ srt_file = << >>
    /\ video = <<"demo", ".", "mkv">>
    /\ output = NoOutput
    /\ fs = [q \in {AudioPath(stem(video)), TranscriptPath(stem(video))}
               |-> Content(0, TRUE)]
    /\ fs0 = fs
    /\ job = 1
    /\ args = [NoFlags EXCEPT !.skip_transcription = TRUE, !.skip_summary = TRUE]
    /\ env = [ffmpeg |-> TRUE, key |-> TRUE, video_exists |-> TRUE]
    /\ exitCode = NoCode
    /\ raised = None
    /\ intr = FALSE
    /\ intr_at = None
    /\ stage = [extraction |-> "reused", transcription |-> "skipped",
                summarization |-> "skipped"]
    /\ calls = NoCalls
    /\ audio_path = AudioPath(stem(video))
    /\ transcript_data = Content(0, TRUE)
    /\ summary_text = None
    /\ warned = FALSE
    /\ response = None
    /\ response_text = NoText
    /\ structured_data = NoValue
    /\ summary_result = NoResult
    /\ prev = FALSE
    /\ outcome = NoOutcome
    /\ sent = NothingSent
    /\ made_dir = TRUE

\* main, lines 232-246: the file is listed with its size and main returns 0
ReportFile ==
    /\ pc = "report"
    /\ size_str' = format_size(size)
    /\ Return(0)
    /\ UNCHANGED <<video, output, fs, job, args, env, intr, intr_at, stage, calls,
                   audio_path, transcript_data, summary_text, warned, response, response_text, structured_data,
                   summary_result, fs0, prev, outcome, sent, made_dir, segments,
                   srt_file, result, transcript_result, size>>

NextReport == ReportFile

ReportSpec == InitReport /\ [][NextReport]_vars

(***************************************************************************)
(* C23  In the completion report a file of s bytes is given in plain       *)
(* bytes when s < 1024, in KB when 1024 <= s < 1048576 and in MB when      *)
(* s >= 1048576; a file of exactly 1024 bytes is reported in KB and one    *)
(* of exactly 1048576 bytes in MB.                                         *)
(***************************************************************************)
\* the unit the report printed
PrintedUnit == size_str[Len(size_str)]

C23_SizeUnits ==
    (pc = "done" /\ size_str # NoSize) =>
        PrintedUnit = IF size < 1024 THEN " bytes"
                      ELSE IF size < 1048576 THEN " KB"
                      ELSE " MB"

====
